---- MODULE Spec2Model ----
(***************************************************************************)
(* Model of starx's connection handler and service registry (handler.go):  *)
(* the read loop and the packet-processing goroutine of handle(conn),      *)
(* processPacket / processMessage / localProcess / remoteProcess, and      *)
(* register / _register / suitableMethods.                                 *)
(*                                                                         *)
(* Bytes are naturals, strings are sequences of character codes (so that    *)
(* a route can be split at its dots), a nil pointer is a record whose ok    *)
(* field is FALSE.                                                          *)
(***************************************************************************)
EXTENDS Integers, Sequences, FiniteSets, TLC

\* ------------------------------------------------------------------ bounds

\* Most packets a client puts on the wire of one connection.
MaxPkts == 3
\* Most bytes one conn.Read returns (the code's buf holds 512).
MaxRead == 9
\* Capacity of packetChan in the model (the code's packetBufferSize is 256).
MaxBuffer == 2
\* Most packets handed to processPacket in the dispatch specification.
MaxDeliver == 2
\* Most calls of register in the registry specification.
MaxRegs == 3

\* --------------------------------------------------------------- constants

packetBufferSize == MaxBuffer

\* Size of the wire header: one type byte and three length bytes.
headLength == 4

PACKET_HANDSHAKE == 1
PACKET_HANDSHAKE_ACK == 2
PACKET_HEARTBEAT == 3
PACKET_DATA == 4

MT_REQUEST == 0
MT_NOTIFY == 1
MT_RESPONSE == 2

SS_HANDSHAKING == "SS_HANDSHAKING"
SS_WORKING == "SS_WORKING"
SS_CLOSED == "SS_CLOSED"

\* App.Config.Type, the category of the local node: "c".
AppConfigType == <<99>>

\* The application session of the connection (fs.userSession).
userSession == "session1"

\* ------------------------------------------------------------ byte helpers

Drop(s, n) == SubSeq(s, n + 1, Len(s))

Take(s, n) == SubSeq(s, 1, n)

RECURSIVE Flatten(_)
Flatten(ss) == IF ss = <<>> THEN <<>> ELSE Head(ss) \o Flatten(Tail(ss))

IsPrefix(s, t) == Len(s) <= Len(t) /\ Take(t, Len(s)) = s

\* ------------------------------------------------------------ wire format

NoPacket == [Type |-> 0, Body |-> <<>>]

\* pack(type, body): the header (type, 3-byte big-endian body length), then
\* the body.
pack(type, body) ==
  <<type, (Len(body) \div 65536) % 256, (Len(body) \div 256) % 256,
    Len(body) % 256>> \o body

\* unpack(data): one whole packet and the tail, or nil and the unchanged
\* buffer when the header or the body is incomplete.
unpack(data) ==
  IF Len(data) < headLength
  THEN [ok |-> FALSE, pkg |-> NoPacket, rest |-> data]
  ELSE LET size == data[2] * 65536 + data[3] * 256 + data[4]
       IN IF Len(data) < headLength + size
          THEN [ok |-> FALSE, pkg |-> NoPacket, rest |-> data]
          ELSE [ok |-> TRUE,
                pkg |-> [Type |-> data[1],
                         Body |-> SubSeq(data, headLength + 1, headLength + size)],
                rest |-> Drop(data, headLength + size)]

\* --------------------------------------------------------------- messages

NoMessage == [Type |-> 0, ID |-> 0, Route |-> <<>>, Body |-> <<>>]

\* encodeMessage: type byte, id byte, route length, route, body.
encodeMessage(msg) ==
  <<msg.Type, msg.ID, Len(msg.Route)>> \o msg.Route \o msg.Body

\* decodeMessage(body): nil when the body is too short for what it announces.
decodeMessage(body) ==
  IF Len(body) < 3 \/ Len(body) < 3 + body[3]
  THEN [ok |-> FALSE, msg |-> NoMessage]
  ELSE [ok |-> TRUE,
        msg |-> [Type |-> body[1], ID |-> body[2],
                 Route |-> SubSeq(body, 4, 3 + body[3]),
                 Body |-> Drop(body, 3 + body[3])]]

\* strings.Split(s, "."): the parts of s between its dots (code 46).
RECURSIVE SplitDots(_, _)
SplitDots(s, cur) ==
  IF s = <<>> THEN <<cur>>
  ELSE IF Head(s) = 46 THEN <<cur>> \o SplitDots(Tail(s), <<>>)
  ELSE SplitDots(Tail(s), Append(cur, Head(s)))

NoRoute == [serverType |-> <<>>, service |-> <<>>, method |-> <<>>]

\* decodeRouteInfo(route): "serverType.service.method", an error otherwise.
decodeRouteInfo(route) ==
  LET parts == SplitDots(route, <<>>)
  IN IF Len(parts) # 3
     THEN [err |-> TRUE, ri |-> NoRoute]
     ELSE [err |-> FALSE,
           ri |-> [serverType |-> parts[1], service |-> parts[2],
                   method |-> parts[3]]]

\* ---------------------------------------------------------------- handlers

\* A handler component as reflection sees it: the name of its underlying
\* type ("" for an unnamed type), whether the value passed is a pointer, and
\* the declared methods (name, pointer receiver or not, the parameter types
\* after the receiver).
Method(name, ptrRecv, ins) == [name |-> name, ptrRecv |-> ptrRecv, ins |-> ins]

SessionAndBody == <<"*Session", "[]byte">>

\* func (*T) Setup(): what makes a type a HandlerComponent.
SetupMethod(ptrRecv) == Method(<<83>>, ptrRecv, <<>>)

\* "Room": Setup, Join, Leave, and Kick, which lacks the []byte parameter.
RoomHandler ==
  [id |-> "room1", typeName |-> <<82>>, isPtr |-> TRUE,
   methods |-> {SetupMethod(TRUE), Method(<<74>>, TRUE, SessionAndBody),
                Method(<<76>>, TRUE, SessionAndBody),
                Method(<<75>>, TRUE, <<"*Session">>)}]

\* A second component whose type is also named "Room".
RoomHandler2 ==
  [id |-> "room2", typeName |-> <<82>>, isPtr |-> TRUE,
   methods |-> {SetupMethod(TRUE), Method(<<80>>, TRUE, SessionAndBody)}]

\* "room": not exported.
LowerHandler ==
  [id |-> "lower", typeName |-> <<114>>, isPtr |-> TRUE,
   methods |-> {SetupMethod(TRUE), Method(<<74>>, TRUE, SessionAndBody)}]

\* "Chat": no method of the handler shape.
ChatHandler ==
  [id |-> "chat", typeName |-> <<67>>, isPtr |-> TRUE,
   methods |-> {SetupMethod(TRUE), Method(<<75>>, TRUE, <<"*Session">>),
                Method(<<106>>, TRUE, SessionAndBody)}]

\* "Gate" passed by value: its handler method has a pointer receiver.
GateHandler ==
  [id |-> "gate", typeName |-> <<71>>, isPtr |-> FALSE,
   methods |-> {SetupMethod(FALSE), Method(<<74>>, TRUE, SessionAndBody)}]

\* An unnamed type.
AnonHandler ==
  [id |-> "anon", typeName |-> <<>>, isPtr |-> TRUE,
   methods |-> {SetupMethod(TRUE), Method(<<74>>, TRUE, SessionAndBody)}]

\* "View" passed by value, with value receivers.
ViewHandler ==
  [id |-> "view", typeName |-> <<86>>, isPtr |-> FALSE,
   methods |-> {SetupMethod(FALSE), Method(<<74>>, FALSE, SessionAndBody),
                Method(<<76>>, FALSE, <<"[]byte", "*Session">>)}]

Handlers ==
  {RoomHandler, RoomHandler2, LowerHandler, ChatHandler, GateHandler,
   AnonHandler, ViewHandler}

\* ---------------------------------------------------------------- registry

\* reflect.TypeOf(rcvr): the type, with its pointer depth.
TypeOf(rcvr) ==
  [name |-> rcvr.typeName, ptr |-> IF rcvr.isPtr THEN 1 ELSE 0,
   methods |-> rcvr.methods]

\* reflect.PtrTo(typ)
PtrTo(typ) == [typ EXCEPT !.ptr = @ + 1]

\* typ.Method(0 .. typ.NumMethod()-1): the method set of T holds the value
\* receivers, that of *T every method, that of **T none.
MethodSet(typ) ==
  IF typ.ptr = 0 THEN {m \in typ.methods : ~m.ptrRecv}
  ELSE IF typ.ptr = 1 THEN typ.methods
  ELSE {}

\* utils.IsExported(name): the first character is an upper-case letter.
IsExported(name) == name # <<>> /\ name[1] \in 65..90

\* utils.IsHandlerMethod(method): exported, and exactly the parameters
\* (receiver, *Session, []byte).
IsHandlerMethod(m) == IsExported(m.name) /\ m.ins = SessionAndBody

EmptyMap == [n \in {} |-> 0]

\* suitableMethods without the IsHandlerMethod test.
suitableMethods_All(typ, reportErr) ==
  [n \in {m.name : m \in MethodSet(typ)} |->
     LET m == CHOOSE x \in MethodSet(typ) : x.name = n
     IN [method |-> m, Arg1Type |-> "", Arg2Type |-> ""]]

suitableMethods(typ, reportErr) ==
  LET suitable == {m \in MethodSet(typ) : IsHandlerMethod(m)}
  IN [n \in {m.name : m \in suitable} |->
        LET m == CHOOSE x \in suitable : x.name = n
        IN [method |-> m, Arg1Type |-> m.ins[1], Arg2Type |-> m.ins[2]]]

\* _register without the "service already defined" check.
_register_Overwrite(sm, rcvr) ==
  LET typ == TypeOf(rcvr)
      sname == rcvr.typeName
      method == suitableMethods(typ, TRUE)
  IN IF sname = <<>> THEN [err |-> "no service name", serviceMap |-> sm]
     ELSE IF ~IsExported(sname) THEN [err |-> "not exported", serviceMap |-> sm]
     ELSE IF DOMAIN method = {}
     THEN [err |-> "no suitable methods", serviceMap |-> sm]
     ELSE [err |-> "",
           serviceMap |->
             [n \in DOMAIN sm \cup {sname} |->
                IF n = sname
                THEN [name |-> sname, rcvr |-> rcvr.id, typ |-> typ,
                      method |-> method]
                ELSE sm[n]]]

\* _register(rcvr) on the registry sm: the error ("" for nil) and the
\* registry afterwards. sname is reflect.Indirect(s.rcvr).Type().Name().
_register(sm, rcvr) ==
  LET typ == TypeOf(rcvr)
      sname == rcvr.typeName
      method == suitableMethods(typ, TRUE)
  IN IF sname = <<>> THEN [err |-> "no service name", serviceMap |-> sm]
     ELSE IF ~IsExported(sname) THEN [err |-> "not exported", serviceMap |-> sm]
     ELSE IF sname \in DOMAIN sm
     THEN [err |-> "service already defined", serviceMap |-> sm]
     ELSE IF DOMAIN method = {}
     THEN [err |-> IF DOMAIN suitableMethods(PtrTo(typ), FALSE) # {}
                   THEN "no suitable methods (hint: pass a pointer)"
                   ELSE "no suitable methods",
           serviceMap |-> sm]
     ELSE [err |-> "",
           serviceMap |->
             [n \in DOMAIN sm \cup {sname} |->
                IF n = sname
                THEN [name |-> sname, rcvr |-> rcvr.id, typ |-> typ,
                      method |-> method]
                ELSE sm[n]]]

\* register(rcvr): Setup, then _register, whose error is dropped: the
\* function has no result (ret is the empty result list).
register(sm, rcvr) ==
  [serviceMap |-> _register(sm, rcvr).serviceMap,
   err |-> _register(sm, rcvr).err,
   ret |-> <<>>]

\* The registry of a node that registered its Room component at startup.
StartupServiceMap == register(EmptyMap, RoomHandler).serviceMap

\* ---------------------------------------------------------------- dispatch

\* What packet handling reads and writes besides the registry: fs.status,
\* session.reqId, the handler methods invoked (calls), the calls of the RPC
\* transport (rpcCalls), the heartbeat refreshes spawned, the packets sent
\* back to the client.

SysRpc == "SysRpc"

\* Body of the handshake reply: code 200 and the heartbeat interval.
HandshakeData == <<200, 60>>

\* localProcess invoking the method before it records the request id.
localProcess_CallFirst(w, sm, session, ri, msg) ==
  IF msg.Type # MT_REQUEST /\ msg.Type # MT_NOTIFY THEN w
  ELSE
    LET w1 == [w EXCEPT !.reqId = IF msg.Type = MT_REQUEST THEN msg.ID ELSE 0]
    IN IF ri.service \in DOMAIN sm
       THEN IF ri.method \in DOMAIN sm[ri.service].method
            THEN [w1 EXCEPT !.calls =
                    Append(@, [rcvr |-> sm[ri.service].rcvr,
                               service |-> sm[ri.service].name,
                               method |-> sm[ri.service].method[ri.method].method.name,
                               session |-> session,
                               body |-> msg.Body,
                               reqId |-> w.reqId])]
            ELSE w1
       ELSE w1

localProcess(w, sm, session, ri, msg) ==
  IF msg.Type # MT_REQUEST /\ msg.Type # MT_NOTIFY THEN w
  ELSE
    LET w1 == [w EXCEPT !.reqId = IF msg.Type = MT_REQUEST THEN msg.ID ELSE 0]
    IN IF ri.service \in DOMAIN sm
       THEN IF ri.method \in DOMAIN sm[ri.service].method
            THEN [w1 EXCEPT !.calls =
                    Append(@, [rcvr |-> sm[ri.service].rcvr,
                               service |-> sm[ri.service].name,
                               method |-> sm[ri.service].method[ri.method].method.name,
                               session |-> session,
                               body |-> msg.Body,
                               reqId |-> w1.reqId])]
            ELSE w1
       ELSE w1

\* remoteProcess forwarding a NOTIFY without clearing the pending id.
remoteProcess_NotifyKeepsId(w, session, ri, msg) ==
  IF msg.Type = MT_REQUEST
  THEN [w EXCEPT !.reqId = msg.ID,
                 !.rpcCalls = Append(@, [kind |-> SysRpc, route |-> ri,
                                         session |-> session, body |-> msg.Body])]
  ELSE IF msg.Type = MT_NOTIFY
  THEN [w EXCEPT !.rpcCalls = Append(@, [kind |-> SysRpc, route |-> ri,
                                         session |-> session, body |-> msg.Body])]
  ELSE w

remoteProcess(w, session, ri, msg) ==
  IF msg.Type = MT_REQUEST
  THEN [w EXCEPT !.reqId = msg.ID,
                 !.rpcCalls = Append(@, [kind |-> SysRpc, route |-> ri,
                                         session |-> session, body |-> msg.Body])]
  ELSE IF msg.Type = MT_NOTIFY
  THEN [w EXCEPT !.reqId = 0,
                 !.rpcCalls = Append(@, [kind |-> SysRpc, route |-> ri,
                                         session |-> session, body |-> msg.Body])]
  ELSE w

\* processMessage dispatching locally whenever the service is registered
\* locally, whatever the category of the route.
processMessage_LocalFirst(w, sm, session, msg) ==
  LET d == decodeRouteInfo(msg.Route)
  IN IF d.err THEN w
     ELSE IF d.ri.serverType = AppConfigType \/ d.ri.service \in DOMAIN sm
     THEN localProcess(w, sm, session, d.ri, msg)
     ELSE remoteProcess(w, session, d.ri, msg)

\* processMessage treating an undecodable route as fatal to the connection.
processMessage_CloseOnBadRoute(w, sm, session, msg) ==
  LET d == decodeRouteInfo(msg.Route)
  IN IF d.err THEN [w EXCEPT !.status = SS_CLOSED]
     ELSE IF d.ri.serverType = AppConfigType
     THEN localProcess(w, sm, session, d.ri, msg)
     ELSE remoteProcess(w, session, d.ri, msg)

processMessage(w, sm, session, msg) ==
  LET d == decodeRouteInfo(msg.Route)
  IN IF d.err THEN w
     ELSE IF d.ri.serverType = AppConfigType
     THEN localProcess(w, sm, session, d.ri, msg)
     ELSE remoteProcess(w, session, d.ri, msg)

\* processPacket entering WORKING on HANDSHAKE already.
processPacket_HandshakeWorking(w, sm, pkg) ==
  IF pkg.Type = PACKET_HANDSHAKE
  THEN [w EXCEPT !.status = SS_WORKING,
                 !.sent = Append(@, pack(PACKET_HANDSHAKE, HandshakeData))]
  ELSE IF pkg.Type = PACKET_HANDSHAKE_ACK
  THEN [w EXCEPT !.status = SS_WORKING]
  ELSE IF pkg.Type = PACKET_HEARTBEAT
  THEN [w EXCEPT !.heartbeats = @ + 1]
  ELSE IF pkg.Type = PACKET_DATA
  THEN LET w1 == [w EXCEPT !.heartbeats = @ + 1]
           d == decodeMessage(pkg.Body)
       IN IF d.ok THEN processMessage(w1, sm, userSession, d.msg) ELSE w1
  ELSE w

\* processPacket routing DATA packets only once the handshake is complete.
processPacket_DataWhenWorking(w, sm, pkg) ==
  IF pkg.Type = PACKET_HANDSHAKE
  THEN [w EXCEPT !.status = SS_HANDSHAKING,
                 !.sent = Append(@, pack(PACKET_HANDSHAKE, HandshakeData))]
  ELSE IF pkg.Type = PACKET_HANDSHAKE_ACK
  THEN [w EXCEPT !.status = SS_WORKING]
  ELSE IF pkg.Type = PACKET_HEARTBEAT
  THEN [w EXCEPT !.heartbeats = @ + 1]
  ELSE IF pkg.Type = PACKET_DATA
  THEN LET w1 == [w EXCEPT !.heartbeats = @ + 1]
           d == decodeMessage(pkg.Body)
       IN IF d.ok /\ w.status = SS_WORKING
          THEN processMessage(w1, sm, userSession, d.msg)
          ELSE w1
  ELSE w

processPacket(w, sm, pkg) ==
  IF pkg.Type = PACKET_HANDSHAKE
  THEN [w EXCEPT !.status = SS_HANDSHAKING,
                 !.sent = Append(@, pack(PACKET_HANDSHAKE, HandshakeData))]
  ELSE IF pkg.Type = PACKET_HANDSHAKE_ACK
  THEN [w EXCEPT !.status = SS_WORKING]
  ELSE IF pkg.Type = PACKET_HEARTBEAT
  THEN [w EXCEPT !.heartbeats = @ + 1]
  ELSE IF pkg.Type = PACKET_DATA
  THEN LET w1 == [w EXCEPT !.heartbeats = @ + 1]
           d == decodeMessage(pkg.Body)
       IN IF d.ok THEN processMessage(w1, sm, userSession, d.msg) ELSE w1
  ELSE w

\* ------------------------------------------------------------------- state

VARIABLES
  wire,        \* bytes the client has sent that conn.Read has not returned yet
  consumed,    \* history: the bytes conn.Read has returned so far
  tmp,         \* the read loop's residual buffer
  pkg,         \* the read loop's decoded packet, waiting to be enqueued
  readPC,      \* where the read loop is
  packetChan,  \* the buffered channel of unhandled packets
  enq,         \* history: every packet sent on packetChan, in order
  chanClosed,  \* close(packetChan) has run
  endChan,     \* the termination channel (capacity 1)
  procPC,      \* where the processing goroutine is
  cpkg,        \* the packet the processing goroutine received
  handled,     \* history: every packet passed to processPacket, in order
  statusAt,    \* history: fs.status when each of these calls began
  active,      \* processPacket calls in progress
  status,      \* fs.status
  reqId,       \* session.reqId
  calls,       \* history: handler methods invoked
  rpcCalls,    \* history: calls of remote.request
  heartbeats,  \* fs.heartbeat goroutines spawned
  sent,        \* packets sent to the client with fs.send
  sessionCloses, \* calls of netService.closeSession
  connClosed,  \* the deferred conn.Close() has run
  serviceMap,  \* handler.serviceMap
  setups,      \* history: components whose Setup hook ran
  regLog       \* history: per register call, _register's error and what
               \* register returned to its caller

bufVars == <<wire, consumed, tmp, pkg>>

chanVars == <<packetChan, enq>>

procVars == <<procPC, cpkg, handled, statusAt, active>>

sessionVars == <<reqId, calls, rpcCalls, heartbeats, sent>>

worldVars == <<status, sessionVars>>

closeVars == <<sessionCloses, connClosed>>

regVars == <<serviceMap, setups, regLog>>

vars ==
  <<bufVars, readPC, chanVars, chanClosed, endChan, procVars, worldVars,
    closeVars, regVars>>

World ==
  [status |-> status, reqId |-> reqId, calls |-> calls, rpcCalls |-> rpcCalls,
   heartbeats |-> heartbeats, sent |-> sent]

SetWorld(w) ==
  /\ status' = w.status
  /\ reqId' = w.reqId
  /\ calls' = w.calls
  /\ rpcCalls' = w.rpcCalls
  /\ heartbeats' = w.heartbeats
  /\ sent' = w.sent

SeqsUpTo(S, n) == UNION {[1..k -> S] : k \in 0..n}

\* ------------------------------------------------------------------ inputs

Route(cat, svc, mth) == cat \o <<46>> \o svc \o <<46>> \o mth

Msg(type, id, route, body) ==
  [Type |-> type, ID |-> id, Route |-> route, Body |-> body]

DataPacket(msg) == [Type |-> PACKET_DATA, Body |-> encodeMessage(msg)]

\* REQUEST 7 "c.R.J": the local node's Room.Join.
JoinRequest == Msg(MT_REQUEST, 7, Route(<<99>>, <<82>>, <<74>>), <<1, 2>>)

\* The packets a client sends in the connection specification.
ConnPackets ==
  { [Type |-> PACKET_HANDSHAKE, Body |-> <<>>],
    [Type |-> PACKET_HANDSHAKE_ACK, Body |-> <<>>],
    [Type |-> PACKET_HEARTBEAT, Body |-> <<>>],
    [Type |-> PACKET_DATA, Body |-> <<5>>],
    DataPacket(JoinRequest) }

PackAll(pkts) ==
  Flatten([i \in 1..Len(pkts) |-> pack(pkts[i].Type, pkts[i].Body)])

Wires == {PackAll(pkts) : pkts \in SeqsUpTo(ConnPackets, MaxPkts)}

\* -------------------------------------------------------- handle(conn)

\* A connection that was just accepted: the processing goroutine waits in
\* its select, createHandlerSession gave the session the status
\* HANDSHAKING, tmp is empty.
InitConn ==
  /\ consumed = <<>>
  /\ tmp = <<>>
  /\ pkg = NoPacket
  /\ readPC = "read"
  /\ packetChan = <<>>
  /\ enq = <<>>
  /\ chanClosed = FALSE
  /\ endChan = <<>>
  /\ procPC = "select"
  /\ cpkg = NoPacket
  /\ handled = <<>>
  /\ statusAt = <<>>
  /\ active = 0
  /\ sessionCloses = 0
  /\ connClosed = FALSE

InitWorld ==
  /\ status = SS_HANDSHAKING
  /\ reqId = 0
  /\ calls = <<>>
  /\ rpcCalls = <<>>
  /\ heartbeats = 0
  /\ sent = <<>>

InitReg ==
  /\ serviceMap = StartupServiceMap
  /\ setups = <<RoomHandler.id>>
  /\ regLog = <<>>

Init ==
  /\ wire \in Wires
  /\ InitConn
  /\ InitWorld
  /\ InitReg

\* tmp = buf[:n]: the residual bytes are dropped.
appendRead_Overwrite(buffer, chunk) == chunk

\* tmp = append(tmp, buf[:n]...)
appendRead(buffer, chunk) == buffer \o chunk

\* n, err := conn.Read(buf) with err == nil: n bytes arrive.
ReadOk(n) ==
  /\ readPC = "read"
  /\ n <= Len(wire)
  /\ tmp' = appendRead(tmp, Take(wire, n))
  /\ consumed' = consumed \o Take(wire, n)
  /\ wire' = Drop(wire, n)
  /\ readPC' = "frame"
  /\ UNCHANGED <<pkg, chanVars, chanClosed, endChan, procVars, worldVars,
                 closeVars, regVars>>

\* conn.Read fails (an error, or EOF): fs.status = SS_CLOSED.
ReadErr ==
  /\ readPC = "read"
  /\ status' = SS_CLOSED
  /\ readPC' = "closeSession"
  /\ UNCHANGED <<bufVars, chanVars, chanClosed, endChan, procVars,
                 sessionVars, closeVars, regVars>>

\* netService.closeSession(fs.userSession)
CloseSession ==
  /\ readPC = "closeSession"
  /\ sessionCloses' = sessionCloses + 1
  /\ readPC' = "signal"
  /\ UNCHANGED <<bufVars, chanVars, chanClosed, endChan, procVars, worldVars,
                 connClosed, regVars>>

\* endChan <- true without the break: the loop goes on to the next read.
SignalEnd_NoBreak ==
  /\ readPC = "signal"
  /\ Len(endChan) < 1
  /\ endChan' = Append(endChan, TRUE)
  /\ readPC' = "read"
  /\ UNCHANGED <<bufVars, chanVars, chanClosed, procVars, worldVars,
                 closeVars, regVars>>

\* break without endChan <- true: the goroutine is never told to stop.
SignalEnd_NoSend ==
  /\ readPC = "signal"
  /\ readPC' = "return"
  /\ UNCHANGED <<bufVars, chanVars, chanClosed, endChan, procVars, worldVars,
                 closeVars, regVars>>

\* endChan <- true; break. The send blocks while endChan is full.
SignalEnd ==
  /\ readPC = "signal"
  /\ Len(endChan) < 1
  /\ endChan' = Append(endChan, TRUE)
  /\ readPC' = "return"
  /\ UNCHANGED <<bufVars, chanVars, chanClosed, procVars, worldVars,
                 closeVars, regVars>>

\* handle returns: the deferred conn.Close().
Return ==
  /\ readPC = "return"
  /\ connClosed' = TRUE
  /\ readPC' = "done"
  /\ UNCHANGED <<bufVars, chanVars, chanClosed, endChan, procVars, worldVars,
                 sessionCloses, regVars>>

\* The condition of the framing loop: len(tmp) > headLength.
MoreToFrame(buffer) == Len(buffer) > headLength

\* for len(tmp) > headLength { if pkg, tmp = unpack(tmp); pkg != nil: a
\* packet was decoded and is about to be sent on packetChan.
Unpack ==
  /\ readPC = "frame"
  /\ MoreToFrame(tmp)
  /\ unpack(tmp).ok
  /\ pkg' = unpack(tmp).pkg
  /\ tmp' = unpack(tmp).rest
  /\ readPC' = "send"
  /\ UNCHANGED <<wire, consumed, chanVars, chanClosed, endChan, procVars,
                 worldVars, closeVars, regVars>>

\* A send that does not wait for room in the channel.
Send_NoBlock ==
  /\ readPC = "send"
  /\ packetChan' = Append(packetChan, pkg)
  /\ enq' = Append(enq, pkg)
  /\ pkg' = NoPacket
  /\ readPC' = "frame"
  /\ UNCHANGED <<wire, consumed, tmp, chanClosed, endChan, procVars,
                 worldVars, closeVars, regVars>>

\* packetChan <- &unhandledPacket{fs, pkg}: blocks while the channel is
\* full; a send on a closed channel panics.
Send ==
  /\ readPC = "send"
  /\ Len(packetChan) < packetBufferSize
  /\ IF chanClosed
     THEN /\ readPC' = "panic"
          /\ UNCHANGED <<chanVars, pkg>>
     ELSE /\ packetChan' = Append(packetChan, pkg)
          /\ enq' = Append(enq, pkg)
          /\ pkg' = NoPacket
          /\ readPC' = "frame"
  /\ UNCHANGED <<wire, consumed, tmp, chanClosed, endChan, procVars,
                 worldVars, closeVars, regVars>>

\* The framing loop ends: tmp is too short, or unpack returned nil (and the
\* buffer unchanged); back to conn.Read.
FrameStop ==
  /\ readPC = "frame"
  /\ ~(MoreToFrame(tmp) /\ unpack(tmp).ok)
  /\ tmp' = IF MoreToFrame(tmp) THEN unpack(tmp).rest ELSE tmp
  /\ readPC' = "read"
  /\ UNCHANGED <<wire, consumed, pkg, chanVars, chanClosed, endChan,
                 procVars, worldVars, closeVars, regVars>>

\* ------------------------------------------- handle(conn): the goroutine

\* case cpkg := <-packetChan taking the newest packet instead of the oldest.
RecvPacket_Lifo ==
  /\ procPC = "select"
  /\ packetChan # <<>>
  /\ cpkg' = packetChan[Len(packetChan)]
  /\ packetChan' = Take(packetChan, Len(packetChan) - 1)
  /\ procPC' = "process"
  /\ active' = active + 1
  /\ UNCHANGED <<bufVars, readPC, enq, chanClosed, endChan, handled, statusAt,
                 worldVars, closeVars, regVars>>

\* case cpkg := <-packetChan: select may take it whenever a packet is
\* queued, also when endChan is ready too (select picks among the ready
\* cases at random).
RecvPacket ==
  /\ procPC = "select"
  /\ packetChan # <<>>
  /\ cpkg' = Head(packetChan)
  /\ packetChan' = Tail(packetChan)
  /\ procPC' = "process"
  /\ active' = active + 1
  /\ UNCHANGED <<bufVars, readPC, enq, chanClosed, endChan, handled, statusAt,
                 worldVars, closeVars, regVars>>

\* handler.processPacket(cpkg.fs, cpkg.packet), then back to the select.
ProcessPacket ==
  /\ procPC = "process"
  /\ SetWorld(processPacket(World, serviceMap, cpkg))
  /\ handled' = Append(handled, cpkg)
  /\ statusAt' = Append(statusAt, status)
  /\ cpkg' = NoPacket
  /\ active' = active - 1
  /\ procPC' = "select"
  /\ UNCHANGED <<bufVars, readPC, chanVars, chanClosed, endChan, closeVars,
                 regVars>>

\* close(packetChan) that also throws away what is queued.
RecvEnd_Discard ==
  /\ procPC = "select"
  /\ endChan # <<>>
  /\ endChan' = Tail(endChan)
  /\ chanClosed' = TRUE
  /\ packetChan' = <<>>
  /\ procPC' = "exit"
  /\ UNCHANGED <<bufVars, readPC, enq, cpkg, handled, statusAt, active,
                 worldVars,
                 closeVars, regVars>>

\* close(packetChan) without the return: the goroutine selects again.
RecvEnd_NoReturn ==
  /\ procPC = "select"
  /\ endChan # <<>>
  /\ endChan' = Tail(endChan)
  /\ chanClosed' = TRUE
  /\ procPC' = "select"
  /\ UNCHANGED <<bufVars, readPC, chanVars, cpkg, handled, statusAt, active,
                 worldVars,
                 closeVars, regVars>>

\* case <-endChan: close(packetChan); return
RecvEnd ==
  /\ procPC = "select"
  /\ endChan # <<>>
  /\ endChan' = Tail(endChan)
  /\ chanClosed' = TRUE
  /\ procPC' = "exit"
  /\ UNCHANGED <<bufVars, readPC, chanVars, cpkg, handled, statusAt, active,
                 worldVars,
                 closeVars, regVars>>

Next ==
  \/ \E n \in 1..MaxRead : ReadOk(n)
  \/ ReadErr
  \/ CloseSession
  \/ SignalEnd
  \/ Return
  \/ Unpack
  \/ Send
  \/ FrameStop
  \/ RecvPacket
  \/ ProcessPacket
  \/ RecvEnd

Spec == Init /\ [][Next]_vars

\* The steps of the read loop that wait for nothing but the scheduler.
ReadLoopStep == CloseSession \/ SignalEnd \/ Return \/ Unpack \/ Send \/ FrameStop

\* The steps of the processing goroutine.
GoroutineStep == RecvPacket \/ ProcessPacket \/ RecvEnd

\* Inputs of the liveness specification: a header-only packet and a packet
\* with a body, which is all that framing and queueing tell apart.
LivePackets ==
  { [Type |-> PACKET_HEARTBEAT, Body |-> <<>>],
    [Type |-> PACKET_DATA, Body |-> <<5>>] }

InitLive ==
  /\ wire \in {PackAll(pkts) : pkts \in SeqsUpTo(LivePackets, MaxPkts)}
  /\ InitConn
  /\ InitWorld
  /\ InitReg

\* The Go scheduler runs a goroutine that is able to run, and every packet
\* handler returns.
LiveSpec ==
  InitLive /\ [][Next]_vars /\ WF_vars(ReadLoopStep) /\ WF_vars(GoroutineStep)

\* ---------------------------------------------------- fault specification

\* The connection fed with DATA packets that carry protocol and dispatch
\* faults, and with one well-formed local request.
FaultPackets ==
  { [Type |-> PACKET_DATA, Body |-> <<5>>],                     \* undecodable
    DataPacket(Msg(MT_REQUEST, 9, <<99, 82, 74>>, <<>>)),       \* "cRJ"
    DataPacket(Msg(MT_REQUEST, 9, Route(<<99>>, <<67>>, <<74>>), <<>>)), \* "c.C.J"
    DataPacket(Msg(MT_NOTIFY, 9, Route(<<99>>, <<82>>, <<75>>), <<>>)),  \* "c.R.K"
    DataPacket(JoinRequest) }

InitFault ==
  /\ wire \in {PackAll(pkts) : pkts \in SeqsUpTo(FaultPackets, MaxPkts)}
  /\ InitConn
  /\ InitWorld
  /\ InitReg

SpecFault == InitFault /\ [][Next]_vars

\* ------------------------------------------------- dispatch specification

\* processPacket applied to packets drawn from MsgPackets, on a new
\* connection, with the Room component registered.

MsgRoutes ==
  { Route(<<99>>, <<82>>, <<74>>),   \* "c.R.J": local, registered
    Route(<<103>>, <<82>>, <<74>>),  \* "g.R.J": another category
    Route(<<99>>, <<82>>, <<75>>),   \* "c.R.K": Kick is not a handler method
    Route(<<99>>, <<67>>, <<74>>),   \* "c.C.J": no service Chat
    <<99, 82, 74>>,                  \* "cRJ": no separators
    <<99, 46, 82>> }                 \* "c.R": one separator

MsgPackets ==
  { DataPacket(Msg(t, id, r, <<1, 2>>)) :
      t \in {MT_REQUEST, MT_NOTIFY, MT_RESPONSE}, id \in {7, 9}, r \in MsgRoutes }
  \cup ConnPackets

InitMsg ==
  /\ wire = <<>>
  /\ InitConn
  /\ InitWorld
  /\ InitReg

\* handler.processPacket(fs, p)
Deliver(p) ==
  /\ Len(handled) < MaxDeliver
  /\ SetWorld(processPacket(World, serviceMap, p))
  /\ handled' = Append(handled, p)
  /\ statusAt' = Append(statusAt, status)
  /\ UNCHANGED <<bufVars, readPC, chanVars, chanClosed, endChan, procPC, cpkg,
                 active, closeVars, regVars>>

NextMsg == \E p \in MsgPackets : Deliver(p)

SpecMsg == InitMsg /\ [][NextMsg]_vars

\* ------------------------------------------------- registry specification

\* newHandler(), then calls of register.
InitRegistry ==
  /\ wire = <<>>
  /\ InitConn
  /\ InitWorld
  /\ serviceMap = EmptyMap
  /\ setups = <<>>
  /\ regLog = <<>>

\* handler.register(rcvr): rcvr.Setup(), then handler._register(rcvr).
Register(rcvr) ==
  /\ Len(regLog) < MaxRegs
  /\ setups' = Append(setups, rcvr.id)
  /\ serviceMap' = register(serviceMap, rcvr).serviceMap
  /\ regLog' = Append(regLog, [rcvr |-> rcvr,
                               err |-> register(serviceMap, rcvr).err,
                               ret |-> register(serviceMap, rcvr).ret])
  /\ UNCHANGED <<bufVars, readPC, chanVars, chanClosed, endChan, procVars,
                 worldVars, closeVars>>

NextReg == \E rcvr \in Handlers : Register(rcvr)

SpecReg == InitRegistry /\ [][NextReg]_vars

\* ------------------------------------------------------------------ claims

\* The packets whose handling has started: those handled, then the one in
\* progress.
Started == handled \o (IF procPC = "process" THEN <<cpkg>> ELSE <<>>)

\* C1: packet handling of a connection is serialized and FIFO: at most one
\* processPacket call is in progress, and the packets whose handling has
\* started are a prefix of the packets the read loop enqueued, in order.
C1_SerializedFifo ==
  /\ active <= 1
  /\ IsPrefix(Started, enq)

C1_Witness ==
  /\ Len(handled) = 2
  /\ handled[1] # handled[2]
  /\ procPC = "process"
  /\ Len(enq) = 3

AckHandled == \E i \in DOMAIN handled : handled[i].Type = PACKET_HANDSHAKE_ACK

\* C2: the status is WORKING only if a HANDSHAKE_ACK packet was handled, and
\* the only step that enters WORKING is the handling of a HANDSHAKE_ACK
\* packet by the processing goroutine.
C2_WorkingOnlyAfterAck ==
  /\ [](status = SS_WORKING => AckHandled)
  /\ [][status # SS_WORKING /\ status' = SS_WORKING =>
          procPC = "process" /\ cpkg.Type = PACKET_HANDSHAKE_ACK]_vars

C2_Witness ==
  /\ status = SS_WORKING
  /\ Len(handled) = 2
  /\ handled[1].Type = PACKET_HANDSHAKE

\* C3: CLOSED is terminal: once the status is CLOSED no step changes it.
C3_ClosedTerminal == [][status = SS_CLOSED => status' = SS_CLOSED]_vars

\* The read loop has sent the termination signal.
SignalSent == readPC \in {"return", "done"}

\* C4: once the termination signal is sent the processing goroutine begins
\* to handle no further packet.
C4_TerminationPriority ==
  [][SignalSent => ~(procPC = "select" /\ procPC' = "process")]_vars

\* The framing loop run on a whole buffer: the packets it enqueues and the
\* buffer it leaves.
RECURSIVE frameLoop(_, _)
frameLoop(buffer, out) ==
  IF MoreToFrame(buffer) /\ unpack(buffer).ok
  THEN frameLoop(unpack(buffer).rest, Append(out, unpack(buffer).pkg))
  ELSE [pkts |-> out, rest |-> buffer]

\* C5: framing is independent of chunking: whenever the read loop is back
\* at conn.Read, the packets enqueued so far and the residual buffer are
\* those of framing the bytes read so far in one piece, however the reads
\* split them; and no byte read is lost: the enqueued packets, the packet
\* about to be sent and the residual buffer make up the bytes read.
C5_ChunkingIndependent ==
  /\ readPC = "read" =>
       /\ enq = frameLoop(consumed, <<>>).pkts
       /\ tmp = frameLoop(consumed, <<>>).rest
  /\ readPC \in {"read", "frame", "send"} =>
       PackAll(enq) \o (IF readPC = "send" THEN pack(pkg.Type, pkg.Body) ELSE <<>>)
         \o tmp = consumed

\* A read ended inside the header of a packet, after a whole packet.
C5_Witness ==
  /\ readPC = "read"
  /\ Len(enq) >= 1
  /\ tmp # <<>>
  /\ Len(tmp) < headLength
  /\ wire # <<>>

\* The packet just passed to processPacket.
LastHandled == handled'[Len(handled')]

DecodedMsg(p) == decodeMessage(p.Body).msg

DecodedRoute(p) == decodeRouteInfo(DecodedMsg(p).Route).ri

HasRoute(p) ==
  /\ p.Type = PACKET_DATA
  /\ decodeMessage(p.Body).ok
  /\ ~decodeRouteInfo(DecodedMsg(p).Route).err

IsLocalRegisteredRequest(p) ==
  /\ HasRoute(p)
  /\ DecodedMsg(p).Type = MT_REQUEST
  /\ DecodedRoute(p).serverType = AppConfigType
  /\ DecodedRoute(p).service \in DOMAIN serviceMap
  /\ DecodedRoute(p).method \in DOMAIN serviceMap[DecodedRoute(p).service].method

\* C6: handling a DATA packet that holds a REQUEST with id k for a
\* registered local service.method invokes exactly that method once, with
\* the connection's session and the message body, while session.reqId is k,
\* and calls the RPC transport not at all.
C6_LocalDispatch ==
  [][(handled' # handled /\ IsLocalRegisteredRequest(LastHandled)) =>
       /\ calls' = Append(calls,
            [rcvr |-> serviceMap[DecodedRoute(LastHandled).service].rcvr,
             service |-> DecodedRoute(LastHandled).service,
             method |-> DecodedRoute(LastHandled).method,
             session |-> userSession,
             body |-> DecodedMsg(LastHandled).Body,
             reqId |-> DecodedMsg(LastHandled).ID])
       /\ reqId' = DecodedMsg(LastHandled).ID
       /\ rpcCalls' = rpcCalls]_vars

C6_Witness ==
  /\ Len(handled) = 2
  /\ Len(calls) = 2
  /\ calls[1].reqId = 7
  /\ calls[2].reqId = 9
  /\ calls[2].method = <<74>>
  /\ calls[2].rcvr = RoomHandler.id
  /\ rpcCalls = <<>>

IsRemoteRequest(p) ==
  /\ HasRoute(p)
  /\ DecodedMsg(p).Type = MT_REQUEST
  /\ DecodedRoute(p).serverType # AppConfigType

\* C7: handling a REQUEST whose route names another category makes exactly
\* one RPC transport call, with the decoded route, the session and the
\* unchanged body, invokes no local handler method and leaves the registry
\* as it is, also when the service and method are registered locally.
C7_RemoteForward ==
  [][(handled' # handled /\ IsRemoteRequest(LastHandled)) =>
       /\ rpcCalls' = Append(rpcCalls,
            [kind |-> SysRpc,
             route |-> DecodedRoute(LastHandled),
             session |-> userSession,
             body |-> DecodedMsg(LastHandled).Body])
       /\ calls' = calls
       /\ serviceMap' = serviceMap]_vars

C7_Witness ==
  /\ Len(handled) = 1
  /\ IsRemoteRequest(handled[1])
  /\ Len(rpcCalls) = 1
  /\ rpcCalls[1].route.service \in DOMAIN serviceMap
  /\ rpcCalls[1].route.method \in DOMAIN serviceMap[rpcCalls[1].route.service].method
  /\ rpcCalls[1].body = <<1, 2>>
  /\ calls = <<>>

\* The register call just made.
LastReg == regLog'[Len(regLog')]

\* C8: a stored service entry never changes, and registering a component
\* whose service name is already present fails and leaves the registry
\* unchanged: each name keeps the handler first registered under it.
C8_RegistrationUnique ==
  [][regLog' # regLog =>
       /\ \A n \in DOMAIN serviceMap :
            n \in DOMAIN serviceMap' /\ serviceMap'[n] = serviceMap[n]
       /\ LastReg.rcvr.typeName \in DOMAIN serviceMap =>
            LastReg.err # "" /\ serviceMap' = serviceMap]_vars

C8_Witness ==
  /\ Len(regLog) = 2
  /\ regLog[1].rcvr = RoomHandler
  /\ regLog[1].err = ""
  /\ regLog[2].rcvr = RoomHandler2
  /\ regLog[2].err = "service already defined"
  /\ serviceMap[<<82>>].rcvr = RoomHandler.id
  /\ DOMAIN serviceMap[<<82>>].method = {<<74>>, <<76>>}

\* C9: the caller of register can tell a failed registration from a
\* successful one: what register returns differs between the two.
C9_FaultSurfaced ==
  \A i, j \in DOMAIN regLog :
    (regLog[i].err = "") # (regLog[j].err = "") => regLog[i].ret # regLog[j].ret

\* C10: every stored service has at least one method, every stored method
\* has the handler-method shape, and a component none of whose methods has
\* that shape is rejected and not stored.
C10_StoredMethodsSuitable ==
  /\ \A n \in DOMAIN serviceMap :
       /\ DOMAIN serviceMap[n].method # {}
       /\ \A m \in DOMAIN serviceMap[n].method :
            /\ IsHandlerMethod(serviceMap[n].method[m].method)
            /\ serviceMap[n].method[m].method.name = m
  /\ \A i \in DOMAIN regLog :
       (\A m \in MethodSet(TypeOf(regLog[i].rcvr)) : ~IsHandlerMethod(m)) =>
         /\ regLog[i].err # ""
         /\ \A n \in DOMAIN serviceMap : serviceMap[n].rcvr # regLog[i].rcvr.id

\* Chat (no suitable method) was rejected; Room, which also has Setup and
\* the ill-shaped Kick, is stored with Join and Leave only.
C10_Witness ==
  /\ Len(regLog) = 2
  /\ regLog[1].rcvr = ChatHandler
  /\ regLog[1].err = "no suitable methods"
  /\ regLog[2].rcvr = RoomHandler
  /\ regLog[2].err = ""
  /\ DOMAIN serviceMap = {<<82>>}
  /\ DOMAIN serviceMap[<<82>>].method = {<<74>>, <<76>>}

\* C11: when the read loop is back at conn.Read, the residual buffer holds
\* no complete packet: a packet whose last byte has arrived was enqueued in
\* the same read iteration, also one that is a header and nothing else.
C11_HeaderOnlyPacketFramed ==
  readPC = "read" => ~(Len(tmp) >= headLength /\ unpack(tmp).ok)

\* Termination signals the read loop has sent: the one waiting in endChan,
\* or the one the goroutine received before it exited.
SignalsSent == Len(endChan) + (IF procPC = "exit" THEN 1 ELSE 0)

\* C12: on a read failure the read loop sets the status to CLOSED, then
\* calls closeSession once, then sends one termination signal, then stops:
\* it reads and enqueues nothing afterwards, and the send of the signal
\* finds endChan empty, so it does not block.
C12_TeardownOrder ==
  /\ [](/\ readPC \in {"read", "frame", "send", "closeSession"} =>
             sessionCloses = 0 /\ SignalsSent = 0
        /\ readPC = "signal" =>
             sessionCloses = 1 /\ SignalsSent = 0 /\ endChan = <<>>
        /\ readPC \in {"return", "done"} =>
             sessionCloses = 1 /\ SignalsSent = 1)
  /\ [][readPC = "read" /\ readPC' \notin {"read", "frame"} =>
          readPC' = "closeSession" /\ status' = SS_CLOSED]_vars
  /\ [][readPC \notin {"read", "frame", "send"} =>
          /\ readPC' \notin {"read", "frame", "send"}
          /\ wire' = wire
          /\ consumed' = consumed
          /\ enq' = enq]_vars

\* The signal was sent while the goroutine was handling a packet.
C12_Witness ==
  /\ readPC = "done"
  /\ procPC = "process"
  /\ endChan = <<TRUE>>
  /\ sessionCloses = 1
  /\ status = SS_CLOSED
  /\ packetChan # <<>>

\* C13: after a read failure the goroutine eventually receives the
\* termination signal, closes packetChan and exits, and handle returns,
\* whatever is queued at the time of the failure.
C13_BothTasksEnd ==
  (readPC = "closeSession") ~>
    (procPC = "exit" /\ chanClosed /\ endChan = <<>> /\ readPC = "done")

\* Both tasks have ended, and the queue was full when the goroutine left.
C13_Witness ==
  /\ procPC = "exit"
  /\ chanClosed
  /\ readPC = "done"
  /\ connClosed
  /\ Len(packetChan) = packetBufferSize

\* C14 as claimed: every packet that is queued when the termination signal
\* is sent is handled before the goroutine exits, so that the goroutine
\* leaves nothing unhandled in the queue.
C14_QueueDrained == procPC = "exit" => handled = enq

\* C14 as amended: the packets enqueued before the signal may drain but need
\* not: when the goroutine exits it has handled, in order, a prefix of the
\* packets enqueued, and the others are still in the closed queue.
C14_PrefixDrained == procPC = "exit" => handled \o packetChan = enq

\* The goroutine handled one queued packet and left with another queued.
C14_Witness ==
  /\ procPC = "exit"
  /\ Len(handled) = 1
  /\ Len(packetChan) = 1
  /\ Len(enq) = 2

\* C15: packetChan never holds more than its capacity; while it is full the
\* read loop stays at its send, with the packet it is about to send, until
\* the goroutine has received a packet; and before a read failure every
\* packet enqueued is handled, being handled or still queued.
C15_BackpressureNoLoss ==
  /\ [](/\ Len(packetChan) <= packetBufferSize
        /\ readPC \in {"read", "frame", "send"} => enq = Started \o packetChan)
  /\ [][readPC = "send" /\ Len(packetChan) = packetBufferSize =>
          readPC' = "send" /\ pkg' = pkg /\ enq' = enq]_vars

\* The read loop is blocked at its send on a full channel.
C15_Witness ==
  /\ readPC = "send"
  /\ pkg # NoPacket
  /\ Len(packetChan) = packetBufferSize
  /\ Len(enq) = packetBufferSize

\* C16: handling a message with a decodable route, local or remote, sets
\* session.reqId to the message's id for a REQUEST and to 0 for a NOTIFY;
\* a message of another kind leaves session.reqId as it is and causes no
\* handler invocation and no RPC transport call.
C16_PendingIdByKind ==
  [][(handled' # handled /\ HasRoute(LastHandled)) =>
       IF DecodedMsg(LastHandled).Type = MT_REQUEST
       THEN reqId' = DecodedMsg(LastHandled).ID
       ELSE IF DecodedMsg(LastHandled).Type = MT_NOTIFY
       THEN reqId' = 0
       ELSE reqId' = reqId /\ calls' = calls /\ rpcCalls' = rpcCalls]_vars

\* A remote REQUEST 9, then a remote NOTIFY: the pending id 9 was cleared.
C16_Witness ==
  /\ Len(handled) = 2
  /\ IsRemoteRequest(handled[1])
  /\ DecodedMsg(handled[1]).ID = 9
  /\ HasRoute(handled[2])
  /\ DecodedMsg(handled[2]).Type = MT_NOTIFY
  /\ DecodedRoute(handled[2]).serverType # AppConfigType
  /\ Len(rpcCalls) = 2
  /\ reqId = 0

Undecodable(p) == p.Type = PACKET_DATA /\ ~decodeMessage(p.Body).ok

MalformedRoute(p) ==
  /\ p.Type = PACKET_DATA
  /\ decodeMessage(p.Body).ok
  /\ decodeRouteInfo(DecodedMsg(p).Route).err

NotRegistered(p) ==
  /\ HasRoute(p)
  /\ DecodedRoute(p).serverType = AppConfigType
  /\ ~(/\ DecodedRoute(p).service \in DOMAIN serviceMap
       /\ DecodedRoute(p).method \in
            DOMAIN serviceMap[DecodedRoute(p).service].method)

\* C17: handling a DATA packet whose body is undecodable, whose route is
\* malformed or whose local service or method is not registered invokes no
\* handler and calls no RPC transport, leaves the status and the connection
\* as they are (the read loop where it is, the queue untouched and open),
\* and returns the goroutine to its select; for an undecodable body or a
\* malformed route session.reqId is unchanged too.
C17_FaultsDropped ==
  [][(handled' # handled /\
        (Undecodable(LastHandled) \/ MalformedRoute(LastHandled)
           \/ NotRegistered(LastHandled))) =>
       /\ calls' = calls
       /\ rpcCalls' = rpcCalls
       /\ status' = status
       /\ procPC' = "select"
       /\ <<readPC, packetChan, chanClosed, endChan, connClosed>>' =
            <<readPC, packetChan, chanClosed, endChan, connClosed>>
       /\ (Undecodable(LastHandled) \/ MalformedRoute(LastHandled)) =>
            reqId' = reqId]_vars

\* After a malformed route and an unregistered service, the request that
\* follows was dispatched, on a connection that is still being read.
C17_Witness ==
  /\ Len(handled) = 3
  /\ MalformedRoute(handled[1])
  /\ NotRegistered(handled[2])
  /\ handled[3] = DataPacket(JoinRequest)
  /\ Len(calls) = 1
  /\ rpcCalls = <<>>
  /\ status = SS_HANDSHAKING
  /\ readPC = "read"
  /\ procPC = "select"

\* C18: a connection whose status is WORKING never returns to HANDSHAKING.
C18_NoReturnToHandshaking ==
  [][status = SS_WORKING => status' # SS_HANDSHAKING]_vars

\* C19: packetChan is closed by the goroutine alone, in the step in which it
\* receives the termination signal and exits, hence after the read loop
\* sent the signal and stopped enqueuing; once it is closed it stays closed,
\* nothing is sent on it (no send panics) and nothing is received from it.
C19_ClosedOnceAfterSignal ==
  /\ [](/\ readPC # "panic"
        /\ chanClosed => procPC = "exit" /\ SignalSent /\ pkg = NoPacket)
  /\ [][~chanClosed /\ chanClosed' =>
          procPC = "select" /\ procPC' = "exit" /\ SignalSent]_vars
  /\ [][chanClosed =>
          /\ chanClosed'
          /\ procPC' = "exit"
          /\ enq' = enq
          /\ packetChan' = packetChan
          /\ handled' = handled]_vars

\* The queue was closed with a packet still in it, and handle returned.
C19_Witness ==
  /\ chanClosed
  /\ procPC = "exit"
  /\ readPC = "done"
  /\ packetChan # <<>>
  /\ handled # <<>>

Statuses == {SS_HANDSHAKING, SS_WORKING, SS_CLOSED}

\* What routing decides: the pending id, the handler invocations, the RPC
\* transport calls.
Routed(w) == <<w.reqId, w.calls, w.rpcCalls>>

\* C20: handling a HEARTBEAT or DATA packet leaves the status as it is, and
\* what handling a DATA packet does to the pending id, the handler
\* invocations and the RPC transport calls is what it would do under any
\* other status.
C20_RoutingIgnoresStatus ==
  [][(handled' # handled /\
        LastHandled.Type \in {PACKET_HEARTBEAT, PACKET_DATA}) =>
       /\ status' = status
       /\ \A st \in Statuses :
            <<reqId', calls', rpcCalls'>> =
              Routed(processPacket([World EXCEPT !.status = st], serviceMap,
                                   LastHandled))]_vars

\* The same request was dispatched to Room.Join once before HANDSHAKE_ACK,
\* once in WORKING and once after the read loop closed the connection.
C20_Witness ==
  /\ Len(handled) = 3
  /\ handled[1] = DataPacket(JoinRequest)
  /\ handled[3] = DataPacket(JoinRequest)
  /\ statusAt = <<SS_HANDSHAKING, SS_HANDSHAKING, SS_CLOSED>>
  /\ handled[2].Type = PACKET_HEARTBEAT
  /\ Len(calls) = 2
  /\ status = SS_CLOSED

====
